---- MODULE Spec2Model ----
(***************************************************************************)
(* State-machine model of src/src/main.rs: the FixedUpdate systems of the  *)
(* game (handle_input, move_camera_to_ball,                                *)
(* increase_score_and_spawn_platforms, detect_fall, detect_hit_obstacle,   *)
(* reset), the deferred Commands they queue, and the two double-buffered   *)
(* event channels (ResetEvent, CollisionEvent).                            *)
(*                                                                         *)
(* One frame of the app is: First (event buffers swap), then zero or more  *)
(* runs of the FixedUpdate schedule (a "tick"), then PostUpdate (physics). *)
(* The systems of a tick are added without ordering (main.rs:352-363), so  *)
(* within a tick they run one after another in any order; the commands    *)
(* they queue (spawn, despawn) are applied when the schedule run ends.     *)
(*                                                                         *)
(* Lengths are integers: one model unit is half a world unit, so that      *)
(* PLATFORM_SIZE.y / 2 = 1.5 is the integer 3.                             *)
(*                                                                         *)
(* Three specifications: Spec is the game; SpecStale applies               *)
(* detect_hit_obstacle once to any buffered collision events; SpecLerp     *)
(* applies move_camera_to_ball once, in numbers, to any camera and ball    *)
(* position on a line.                                                     *)
(***************************************************************************)
EXTENDS Integers, Sequences, FiniteSets, TLC

VARIABLES
    ball,        \* the Ball entity: translation z, y and whether Velocity is zero
    score,       \* Score component of the ball
    platforms,   \* the Platform entities, in query iteration order
    fresh,       \* how many leading platforms still sit in the spawn archetype
    obstacles,   \* number of Obstacle entities
    camera,      \* the MainCamera entity: its pose (and, under SpecLerp, its
                 \* translation in numbers)
    keyboard,    \* Input<KeyCode> of the current frame
    resetEvents, \* Events<ResetEvent>: buffers a (current) and b (previous)
    collisions,  \* Events<CollisionEvent> not yet read by detect_hit_obstacle
    commands,    \* Commands queued by the systems of the running tick
    phase,       \* "first", "fixed" (between ticks of a frame) or "tick"
                 \* (under SpecLerp: "camera", then "moved")
    toRun,       \* systems of the running tick that have not run yet
    ticks,       \* FixedUpdate runs so far in this frame
    hist         \* history of the last tick (observation only)

vars == <<ball, score, platforms, fresh, obstacles, camera, keyboard,
          resetEvents, collisions, commands, phase, toRun, ticks, hist>>

----------------------------------------------------------------------------
(* Bounds of the model *)

MaxDepth == 2          \* ball z ranges over 0, -90, ..., -90 * MaxDepth
MaxDrop == 1           \* ball y ranges down to -40 * MaxDrop
MaxTicksPerFrame == 2  \* FixedUpdate runs per frame
MaxCollisions == 1     \* collision events the physics step reports per frame
MaxCounted == 2        \* buffered ResetEvents are counted up to this number
MaxObstacles == 4      \* obstacles are counted up to this number
MaxAlong == 90         \* camera and ball lie up to this many camera offsets out

----------------------------------------------------------------------------
(* Constants of the program *)

U(n) == 2 * n                \* world units to model units

PLATFORM_SIZE_Y == 3         \* PLATFORM_SIZE.y
PLATFORM_SIZE_Z == 100       \* PLATFORM_SIZE.z
ORIGIN_DEPTH == 10           \* origin platform y = -10. - PLATFORM_SIZE.y / 2
SPAWN_DROP == 90             \* new platform y = ball y - 90
SPAWN_ADVANCE == 80          \* new platform z = ball z - 80
FALL_TOLERANCE == 20         \* detect_fall: minimum - 20
CAMERA_OFFSET_Y == 20        \* CAMERA_OFFSET.y
CAMERA_OFFSET_Z == 15        \* CAMERA_OFFSET.z
LERP_BASE == 50              \* move_camera_to_ball: 0.05, in thousandths
LERP_SCALE == 1000           \* distance_error / 1000.0; factors in thousandths

\* -10. - PLATFORM_SIZE.y / 2, in model units (U(PLATFORM_SIZE_Y) / 2)
OriginY == -U(ORIGIN_DEPTH) - PLATFORM_SIZE_Y

\* The systems added to FixedUpdate (update_score only copies the score into
\* the UI text and is left out).
Systems == {"handle_input", "move_camera_to_ball",
            "increase_score_and_spawn_platforms",
            "detect_fall", "detect_hit_obstacle", "reset"}

\* Every system but reset reads nothing another of them writes, so any two of
\* them commute: the outcome of a tick depends only on which of them run
\* before reset.  They are therefore run in the order they are declared,
\* and reset at any point among them.
Declared == <<"handle_input", "move_camera_to_ball",
              "increase_score_and_spawn_platforms",
              "detect_fall", "detect_hit_obstacle">>

Turn(name, left) ==
    /\ name \in left
    /\ \A k \in DOMAIN Declared :
          Declared[k] = name =>
              \A j \in 1..(k - 1) : Declared[j] \notin left

Min(a, b) == IF a < b THEN a ELSE b

SeqsUpTo(S, n) == UNION {[1..k -> S] : k \in 0..n}

RECURSIVE SumTo(_, _)
SumTo(f, n) == IF n = 0 THEN 0 ELSE f[n] + SumTo(f, n - 1)

----------------------------------------------------------------------------
(* setup_scene: the entities the Startup schedule spawns *)

\* Transform::default() and Velocity::zero(); the ball is spawned with them
\* and reset writes them back.
OriginBall == [z |-> 0, y |-> 0, vel |-> "zero"]

\* The platform spawned at startup.  fired, since, credit, az and ay are
\* history fields: whether scoring has ever fired for this entity, the
\* scoring events and the score points it got since the last reset, and the
\* position of the anchor a generated platform was spawned from.
OriginPlatform ==
    [origin |-> TRUE, z |-> 0, y |-> OriginY, scored |-> FALSE,
     fired |-> FALSE, since |-> 0, credit |-> 0, az |-> 0, ay |-> OriginY]

\* The camera's Transform is kept as "initial" (exactly
\* Transform::from_translation(CAMERA_OFFSET).looking_at(ZERO, Y)) or
\* "following".
InitialCamera == [pose |-> "initial"]

----------------------------------------------------------------------------
(* Events<T>: two buffers, a (written now) and b (written before the last  *)
(* update).  A ResetEvent buffer is the number n of its events, counted up *)
(* to MaxCounted, and done: reset has been applied since the last of them  *)
(* was sent (history).                                                     *)

EmptyBuffer == [n |-> 0, done |-> TRUE]

\* EventWriter::send_default, k times
SendN(ev, k) ==
    IF k = 0 THEN ev
    ELSE [ev EXCEPT !.a = [n |-> Min(MaxCounted, @.n + k), done |-> FALSE]]

Send(ev) == SendN(ev, 1)

\* EventReader::len for a reader that never reads: every buffered event
Unread(ev) == ev.a.n + ev.b.n

\* Events::update, run once per frame in First: b is dropped, a becomes b
UpdateEvents(ev) == [a |-> EmptyBuffer, b |-> ev.a]

AllDone(ev) == [a |-> [n |-> ev.a.n, done |-> TRUE],
                b |-> [n |-> ev.b.n, done |-> TRUE]]

NoCommands == [spawn |-> <<>>, spawnObstacles |-> 0,
               despawnPlatforms |-> FALSE, despawnObstacles |-> FALSE]

\* The part of the world the systems read and write.
World == [ball |-> ball, score |-> score, platforms |-> platforms,
          camera |-> camera, commands |-> commands]

----------------------------------------------------------------------------
(* handle_input *)

\* linvel.x += horizontal * 0.5, where nudge says that horizontal (-1, 0 or
\* 1) is not 0: a nudge makes the velocity non-zero (within a frame the keys
\* do not change, and the physics step adds gravity)
Nudge(vel, nudge) == IF nudge THEN "moving" ELSE vel

HandleInput ==
    /\ phase = "tick" /\ Turn("handle_input", toRun)
    /\ toRun' = toRun \ {"handle_input"}
    /\ ball' = [ball EXCEPT !.vel = Nudge(@, keyboard.nudge)]
    /\ resetEvents' = IF keyboard.r THEN Send(resetEvents) ELSE resetEvents
    /\ hist' = [hist EXCEPT !.sent = @ \/ keyboard.r]
    /\ UNCHANGED <<score, platforms, fresh, obstacles, camera, keyboard,
                   collisions, commands, phase, ticks>>

----------------------------------------------------------------------------
(* move_camera_to_ball *)

\* lerp towards ball + offset_from_target and slerp towards looking at the
\* ball: the pose stays the initial one only when the camera is there and the
\* ball is at the origin (target = CAMERA_OFFSET, looking at ZERO)
FollowPose(cam, b) ==
    IF cam.pose = "initial" /\ b.z = 0 /\ b.y = 0 THEN "initial" ELSE "following"

MoveCameraToBall ==
    /\ phase = "tick" /\ Turn("move_camera_to_ball", toRun)
    /\ toRun' = toRun \ {"move_camera_to_ball"}
    /\ camera' = [pose |-> FollowPose(camera, ball)]
    /\ hist' = [hist EXCEPT !.camLate = hist.applied /\ hist.away]
    /\ UNCHANGED <<ball, score, platforms, fresh, obstacles, keyboard,
                   resetEvents, collisions, commands, phase, ticks>>

----------------------------------------------------------------------------
(* increase_score_and_spawn_platforms *)

MinZ(ps) == CHOOSE m \in {ps[i].z : i \in DOMAIN ps} :
                \A i \in DOMAIN ps : m <= ps[i].z

\* last_mut() without the sort: any platform
AnyPlatform(ps) == DOMAIN ps

\* sort_unstable_by z descending, then last_mut(): a platform of minimal z;
\* among platforms of equal z the unstable sort may leave any one last
LastPlatforms(ps) == {i \in DOMAIN ps : ps[i].z = MinZ(ps)}

\* score.0 += 1
ScoreInsideSpawnLoop(s) == s + 2

ScoreAfter(s) == s + 1

\* scored.0 = true
ScoredLeftAlone(flag) == flag

MarkScored(flag) == TRUE

\* for index in 0..2
SpawnOnlyOne == 2 - 1

SPAWN_COUNT == 2

\* random::<f32>().mul_add(2., 2.) as i32: 2 or 3 obstacles per platform
ObstacleCounts == {2, 3}

\* Transform::from_translation(.., ball y - 90, ball z + 80), Scored(false)
NewPlatformBehindBall(b, anchor) ==
    [origin |-> FALSE, z |-> b.z + U(SPAWN_ADVANCE), y |-> b.y - U(SPAWN_DROP),
     scored |-> FALSE, fired |-> FALSE, since |-> 0, credit |-> 0,
     az |-> anchor.z, ay |-> anchor.y]

\* Transform::from_translation(.., ball y - 90, ball z - 80), Scored(false)
NewPlatform(b, anchor) ==
    [origin |-> FALSE, z |-> b.z - U(SPAWN_ADVANCE), y |-> b.y - U(SPAWN_DROP),
     scored |-> FALSE, fired |-> FALSE, since |-> 0, credit |-> 0,
     az |-> anchor.z, ay |-> anchor.y]

SpawnedPlatforms(b, anchor) == [j \in 1..SPAWN_COUNT |-> NewPlatform(b, anchor)]

Crossed(b, p) == b.z < p.z

\* The system run on world w, with i the platform the sort leaves last and
\* ks the obstacle counts drawn for the new platforms.
ScoreSystem(w, i, ks) ==
    LET p == w.platforms[i]
        fire == Crossed(w.ball, p) /\ ~p.scored
        newScore == IF fire THEN ScoreAfter(w.score) ELSE w.score
        marked == [p EXCEPT !.scored = MarkScored(@),
                            !.fired = @ \/ fire,
                            !.since = IF fire THEN Min(2, @ + 1) ELSE @,
                            !.credit = @ + (newScore - w.score)]
    IN  IF ~Crossed(w.ball, p) THEN w
        ELSE [w EXCEPT
                !.score = newScore,
                !.platforms[i] = marked,
                !.commands.spawn =
                    IF fire THEN @ \o SpawnedPlatforms(w.ball, p) ELSE @,
                !.commands.spawnObstacles =
                    IF fire THEN Min(MaxObstacles, @ + SumTo(ks, SPAWN_COUNT))
                    ELSE @]

Fires(w, i) == Crossed(w.ball, w.platforms[i]) /\ ~w.platforms[i].scored

IncreaseScoreAndSpawnPlatforms ==
    /\ phase = "tick" /\ Turn("increase_score_and_spawn_platforms", toRun)
    /\ toRun' = toRun \ {"increase_score_and_spawn_platforms"}
    /\ \E i \in LastPlatforms(platforms) :
       \E ks \in [1..SPAWN_COUNT -> ObstacleCounts] :
          LET w == ScoreSystem(World, i, ks) IN
          /\ Fires(World, i) \/ \A j \in 1..SPAWN_COUNT : ks[j] = 2
          /\ score' = w.score
          /\ platforms' = w.platforms
          /\ commands' = w.commands
          /\ hist' = [hist EXCEPT
                        !.fired = Fires(World, i),
                        !.refired = Fires(World, i) /\ platforms[i].fired]
    /\ UNCHANGED <<ball, fresh, obstacles, camera, keyboard, resetEvents,
                   collisions, phase, ticks>>

----------------------------------------------------------------------------
(* detect_fall *)

MinY(ps) == CHOOSE m \in {ps[i].y : i \in DOMAIN ps} :
                \A i \in DOMAIN ps : m <= ps[i].y

\* transform.translation.y < minimum - 20.
Fallen(b, ps) == b.y < MinY(ps) - U(FALL_TOLERANCE)

DetectFall ==
    /\ phase = "tick" /\ Turn("detect_fall", toRun)
    /\ toRun' = toRun \ {"detect_fall"}
    /\ resetEvents' = IF Fallen(ball, platforms) THEN Send(resetEvents)
                      ELSE resetEvents
    /\ hist' = [hist EXCEPT
                  !.sent = @ \/ Fallen(ball, platforms),
                  !.fallRan = TRUE,
                  !.fallGap = ball.y - (MinY(platforms) - U(FALL_TOLERANCE)),
                  !.fallSent = Fallen(ball, platforms),
                  !.fallDue = IF ~Fallen(ball, platforms) \/ @ = "next" THEN @
                              ELSE "now"]
    /\ UNCHANGED <<ball, score, platforms, fresh, obstacles, camera, keyboard,
                   collisions, commands, phase, ticks>>

----------------------------------------------------------------------------
(* detect_hit_obstacle *)

\* obstacle_query.contains(entity), with the query taken for "every entity
\* that is neither the ball nor a platform"
AnyOtherEntity(entity, n) == entity \notin {"ball", "platform"}

\* obstacle_query.contains(entity): entity is one of the n obstacles.  An
\* Entity is known by its kind; "despawned" is the Entity of an obstacle that
\* a despawn command has removed, which no query contains.
ObstacleQueryContains(entity, n) == entity = "obstacle" /\ n > 0

\* CollisionEvent::Started(first, second, _) with
\* ball_query.single().0 == *first && obstacle_query.contains(*second)
IsHit(e, n) ==
    /\ e.started
    /\ e.first = "ball"
    /\ ObstacleQueryContains(e.second, n)

Hits(es, n) == Cardinality({k \in DOMAIN es : IsHit(es[k], n)})

\* a collision-start event between the ball and an existing obstacle, in
\* either order (observation only)
BallObstaclePairs(es, n) ==
    Cardinality({k \in DOMAIN es :
        /\ es[k].started
        /\ \/ es[k].first = "ball" /\ ObstacleQueryContains(es[k].second, n)
           \/ es[k].second = "ball" /\ ObstacleQueryContains(es[k].first, n)})

\* the events of es that name no despawned entity
Live(es) == SelectSeq(es, LAMBDA e : e.first # "despawned" /\ e.second # "despawned")

DetectHitObstacle ==
    /\ phase = "tick" /\ Turn("detect_hit_obstacle", toRun)
    /\ toRun' = toRun \ {"detect_hit_obstacle"}
    /\ LET es == collisions.b \o collisions.a IN
       /\ resetEvents' = SendN(resetEvents, Hits(es, obstacles))
       /\ hist' = [hist EXCEPT !.sent = @ \/ Hits(es, obstacles) > 0,
                               !.hitPairs = BallObstaclePairs(es, obstacles),
                               !.hitSent = Hits(es, obstacles),
                               !.hitStale = Len(es) - Len(Live(es))]
    /\ collisions' = [a |-> <<>>, b |-> <<>>]
    /\ UNCHANGED <<ball, score, platforms, fresh, obstacles, camera, keyboard,
                   commands, phase, ticks>>

----------------------------------------------------------------------------
(* reset *)

\* !event_reader.is_empty(), for n buffered events
ResetRequestedBySingleEvent(n) == n = 1

ResetRequested(n) == n > 0

\* *transform = Transform::default(); *velocity = Velocity::zero()
ResetVelocityOnly(b) == [b EXCEPT !.vel = "zero"]

ResetBall(b) == OriginBall

\* reset without score.0 = 0
ResetScoreKept(s) == s

\* score.0 = 0
ResetScore(s) == 0

\* reset without *platform.0 = Scored(false)
ScoredKept(p) == [p EXCEPT !.since = 0, !.credit = 0]

\* *platform.0 = Scored(false)
ClearScored(p) == [p EXCEPT !.scored = FALSE, !.since = 0, !.credit = 0]

\* The system run on world w with n buffered ResetEvents.  The despawns of
\* platform_query.iter().skip(1) and of every obstacle are queued commands.
ResetSystem(w, n) ==
    IF ~ResetRequested(n) THEN w
    ELSE [w EXCEPT
            !.ball = ResetBall(@),
            !.score = ResetScore(@),
            !.platforms = [i \in DOMAIN @ |-> ClearScored(@[i])],
            !.camera.pose = "initial",
            !.commands.despawnPlatforms = TRUE,
            !.commands.despawnObstacles = TRUE]

Reset ==
    /\ phase = "tick" /\ "reset" \in toRun
    /\ toRun' = toRun \ {"reset"}
    /\ LET n == Unread(resetEvents)
           w == ResetSystem(World, n)
       IN /\ ball' = w.ball
          /\ score' = w.score
          /\ platforms' = w.platforms
          /\ camera' = w.camera
          /\ commands' = w.commands
          /\ resetEvents' = IF ResetRequested(n) THEN AllDone(resetEvents)
                            ELSE resetEvents
          /\ hist' = [hist EXCEPT
                        !.applied = ResetRequested(n),
                        !.seen = IF ResetRequested(n) THEN n ELSE 0,
                        !.reapplied = /\ ResetRequested(n)
                                      /\ resetEvents = AllDone(resetEvents),
                        !.fallDue = IF ResetRequested(n) THEN "none" ELSE @]
    /\ UNCHANGED <<fresh, obstacles, keyboard, collisions, phase, ticks>>

----------------------------------------------------------------------------
(* The FixedUpdate schedule: a run starts every system once and applies    *)
(* the queued commands when all of them have run.                          *)
(*                                                                         *)
(* hist records the running tick: the score and whether the world was the  *)
(* start state when it began; whether scoring fired (and for a platform it *)
(* had fired for before); whether the ball was away from the origin when   *)
(* it began and whether move_camera_to_ball read the ball after reset had  *)
(* moved it from there; whether reset was applied, with how many events    *)
(* buffered and whether all of them had been applied before; whether any   *)
(* ResetEvent was sent; what detect_hit_obstacle and detect_fall saw and   *)
(* sent, and how many events named a despawned entity.  fallDue follows a ResetEvent sent by detect_fall: "now" until    *)
(* the tick ends or reset is applied, "next" during the following tick,    *)
(* "missed" when that tick ends without reset having been applied.         *)

BlankHist ==
    [preScore |-> 0, preStart |-> FALSE, fired |-> FALSE, applied |-> FALSE,
     seen |-> 0, reapplied |-> FALSE, refired |-> FALSE, sent |-> FALSE, hitPairs |-> 0, hitSent |-> 0,
     fallRan |-> FALSE, fallGap |-> 0, fallSent |-> FALSE, fallDue |-> "none",
     away |-> FALSE, camLate |-> FALSE, hitStale |-> 0]

CarryDue(d) == IF d = "missed" THEN "none" ELSE d

\* the world as setup_scene leaves it, whatever the ball's position
StartState ==
    /\ score = 0
    /\ Len(platforms) = 1
    /\ platforms[1].origin /\ ~platforms[1].scored
    /\ obstacles = 0

TickBegin ==
    /\ phase = "fixed" /\ ticks < MaxTicksPerFrame
    /\ phase' = "tick"
    /\ toRun' = Systems
    /\ hist' = [BlankHist EXCEPT !.preScore = score,
                                 !.preStart = StartState,
                                 !.away = ball.z # 0 \/ ball.y # 0,
                                 !.fallDue = CarryDue(hist.fallDue)]
    /\ UNCHANGED <<ball, score, platforms, fresh, obstacles, camera, keyboard,
                   resetEvents, collisions, commands, ticks>>

\* Platforms after the queued commands: the despawns remove every platform
\* but the first of the iteration order; the spawned platforms enter the
\* spawn archetype, which queries iterate before the archetype the platforms
\* are moved to in PostUpdate.
KeptFresh(ps, n, cmd) ==
    IF cmd.despawnPlatforms THEN SubSeq(ps, 1, Min(n, 1)) ELSE SubSeq(ps, 1, n)

\* platform_query.iter().skip(1), without the skip
KeptNoneSettled(ps, n, cmd) ==
    IF cmd.despawnPlatforms THEN <<>> ELSE SubSeq(ps, n + 1, Len(ps))

KeptSettled(ps, n, cmd) ==
    IF cmd.despawnPlatforms
        THEN (IF n = 0 THEN SubSeq(ps, 1, 1) ELSE <<>>)
        ELSE SubSeq(ps, n + 1, Len(ps))

ApplyPlatformCommands(ps, n, cmd) ==
    KeptFresh(ps, n, cmd) \o cmd.spawn \o KeptSettled(ps, n, cmd)

\* The Entity of a despawned obstacle stays in the collision events that
\* name it.
DespawnedIn(es, cmd) ==
    [k \in DOMAIN es |->
        IF ~cmd.despawnObstacles THEN es[k]
        ELSE [es[k] EXCEPT
                !.first = IF @ = "obstacle" THEN "despawned" ELSE @,
                !.second = IF @ = "obstacle" THEN "despawned" ELSE @]]

ApplyObstacleCommands(n, cmd) ==
    Min(MaxObstacles, (IF cmd.despawnObstacles THEN 0 ELSE n) + cmd.spawnObstacles)

TickEnd ==
    /\ phase = "tick" /\ toRun = {}
    /\ phase' = "fixed"
    /\ ticks' = ticks + 1
    /\ platforms' = ApplyPlatformCommands(platforms, fresh, commands)
    /\ fresh' = Len(KeptFresh(platforms, fresh, commands)) + Len(commands.spawn)
    /\ obstacles' = ApplyObstacleCommands(obstacles, commands)
    /\ collisions' = [a |-> DespawnedIn(collisions.a, commands),
                      b |-> DespawnedIn(collisions.b, commands)]
    /\ commands' = NoCommands
    /\ hist' = [hist EXCEPT !.fallDue = CASE @ = "now" -> "next"
                                          [] @ = "next" -> "missed"
                                          [] OTHER -> @]
    /\ UNCHANGED <<ball, score, camera, keyboard, resetEvents, toRun>>

----------------------------------------------------------------------------
(* The frame around the ticks *)

BallZs == {-U(90) * k : k \in 0..MaxDepth}

BallYs == {0, OriginY - U(FALL_TOLERANCE)} \cup {-U(40) * k : k \in 1..MaxDrop}

\* Collision events the physics step can report
CollisionKinds(n) ==
    {[started |-> TRUE, first |-> "ball", second |-> "platform"]}
    \cup (IF n = 0 THEN {}
          ELSE {[started |-> TRUE, first |-> "ball", second |-> "obstacle"],
                [started |-> TRUE, first |-> "obstacle", second |-> "ball"],
                [started |-> FALSE, first |-> "ball", second |-> "obstacle"]})

\* PostUpdate: the physics step integrates the ball to a new position with a
\* non-zero velocity and reports collisions; the platforms spawned in this
\* frame get their physics components and move behind the older ones.
PostUpdate ==
    /\ phase = "fixed"
    /\ phase' = "first"
    /\ \E z \in BallZs, y \in BallYs :
          ball' = [z |-> z, y |-> y, vel |-> "moving"]
    /\ \E es \in SeqsUpTo(CollisionKinds(obstacles), MaxCollisions) :
          collisions' = [collisions EXCEPT !.a = @ \o es]
    /\ platforms' = SubSeq(platforms, fresh + 1, Len(platforms))
                        \o SubSeq(platforms, 1, fresh)
    /\ fresh' = 0
    /\ hist' = [BlankHist EXCEPT !.fallDue = CarryDue(hist.fallDue)]
    /\ UNCHANGED <<score, obstacles, camera, keyboard, resetEvents, commands,
                   toRun, ticks>>

\* r: KeyCode::R is pressed; nudge: the horizontal axis is not 0
Keyboards == [r : BOOLEAN, nudge : BOOLEAN]

\* First of the next frame: both event channels are updated and the keys are
\* polled.
FrameFirst ==
    /\ phase = "first"
    /\ phase' = "fixed"
    /\ ticks' = 0
    /\ resetEvents' = UpdateEvents(resetEvents)
    /\ collisions' = [a |-> <<>>, b |-> collisions.a]
    /\ keyboard' \in Keyboards
    /\ UNCHANGED <<ball, score, platforms, fresh, obstacles, camera, commands,
                   toRun, hist>>

----------------------------------------------------------------------------

Init ==
    /\ ball = OriginBall
    /\ score = 0
    /\ platforms = <<OriginPlatform>>
    /\ fresh = 1
    /\ obstacles = 0
    /\ camera = InitialCamera
    /\ keyboard = [r |-> FALSE, nudge |-> FALSE]
    /\ resetEvents = [a |-> EmptyBuffer, b |-> EmptyBuffer]
    /\ collisions = [a |-> <<>>, b |-> <<>>]
    /\ commands = NoCommands
    /\ phase = "first"
    /\ toRun = {}
    /\ ticks = 0
    /\ hist = BlankHist

Next ==
    \/ FrameFirst
    \/ TickBegin
    \/ HandleInput
    \/ MoveCameraToBall
    \/ IncreaseScoreAndSpawnPlatforms
    \/ DetectFall
    \/ DetectHitObstacle
    \/ Reset
    \/ TickEnd
    \/ PostUpdate

Spec == Init /\ [][Next]_vars

\* the state right after a tick's commands have been applied
AtTickEnd == phase = "fixed" /\ ticks > 0

----------------------------------------------------------------------------
(* detect_hit_obstacle on its own: the system is applied once to any       *)
(* buffered collision events, among them events that name an obstacle a   *)
(* reset has despawned.  (Under Spec no such event is ever delivered:      *)
(* detect_hit_obstacle reads every buffered event in the tick whose end    *)
(* applies the despawns, and the physics step reports events only for      *)
(* existing entities.)                                                     *)

StaleKinds == {[started |-> TRUE, first |-> "ball", second |-> "despawned"],
               [started |-> TRUE, first |-> "despawned", second |-> "ball"]}

InitStale ==
    /\ ball = OriginBall
    /\ score = 0
    /\ platforms = <<OriginPlatform>>
    /\ fresh = 0
    /\ obstacles \in 0..MaxObstacles
    /\ camera = InitialCamera
    /\ keyboard = [r |-> FALSE, nudge |-> FALSE]
    /\ resetEvents \in {[a |-> EmptyBuffer, b |-> EmptyBuffer],
                        Send([a |-> EmptyBuffer, b |-> EmptyBuffer])}
    /\ collisions \in
          [a : SeqsUpTo(CollisionKinds(obstacles) \cup StaleKinds, MaxCollisions),
           b : SeqsUpTo(CollisionKinds(obstacles) \cup StaleKinds, MaxCollisions)]
    /\ commands = NoCommands
    /\ phase = "tick"
    /\ toRun = {"detect_hit_obstacle", "reset"}
    /\ ticks = 0
    /\ hist = BlankHist

NextStale == DetectHitObstacle

SpecStale == InitStale /\ [][NextStale]_vars

----------------------------------------------------------------------------
(* move_camera_to_ball in numbers: one run of the system from any camera   *)
(* and ball position on the line through the origin along CAMERA_OFFSET,   *)
(* where every length is a whole number (CAMERA_OFFSET has length 25).     *)
(* Vectors are kept in the y-z plane, in world units.  The camera is kept  *)
(* as the point at + (target - at) * factor / LERP_SCALE.                  *)

Abs(x) == IF x < 0 THEN -x ELSE x

Vec(y, z) == [y |-> y, z |-> z]

VecAdd(a, b) == Vec(a.y + b.y, a.z + b.z)

VecSub(a, b) == Vec(a.y - b.y, a.z - b.z)

CameraOffset == Vec(CAMERA_OFFSET_Y, CAMERA_OFFSET_Z)

\* the point m camera offsets out from the origin
Along(m) == Vec(m * CAMERA_OFFSET_Y, m * CAMERA_OFFSET_Z)

\* the largest r in lo..hi with r * r <= n
RECURSIVE SqrtBetween(_, _, _)
SqrtBetween(n, lo, hi) ==
    IF lo >= hi THEN lo
    ELSE LET mid == (lo + hi + 1) \div 2
         IN  IF mid * mid <= n THEN SqrtBetween(n, mid, hi)
             ELSE SqrtBetween(n, lo, mid - 1)

\* Vec3::length
Length(v) == SqrtBetween(v.y * v.y + v.z * v.z, 0, Abs(v.y) + Abs(v.z))

\* the ball's translation, in world units
BallPosition(b) == Vec(b.y \div U(1), b.z \div U(1))

\* ((ball - camera).length() - offset_from_target.length()).abs()
DistanceError(at, b) == Abs(Length(VecSub(b, at)) - Length(CameraOffset))

\* 0.05 + distance_error / 500.0
LerpFactorDoubled(err) == LERP_BASE + 2 * err

\* 0.05 + distance_error / 1000.0, in thousandths
LerpFactor(err) == LERP_BASE + err

\* transform.translation.lerp(ball + offset_from_target, factor): Vec3::lerp
\* is self + (rhs - self) * s, for any s
MoveCamera(cam, b) ==
    [pose |-> "following",
     at |-> cam.at,
     target |-> VecAdd(b, CameraOffset),
     factor |-> LerpFactor(DistanceError(cam.at, b))]

MoveCameraInNumbers ==
    /\ phase = "camera"
    /\ phase' = "moved"
    /\ camera' = MoveCamera(camera, BallPosition(ball))
    /\ UNCHANGED <<ball, score, platforms, fresh, obstacles, keyboard,
                   resetEvents, collisions, commands, toRun, ticks, hist>>

InitLerp ==
    /\ \E m \in 0..MaxAlong :
          ball = [z |-> U(m * CAMERA_OFFSET_Z), y |-> U(m * CAMERA_OFFSET_Y),
                  vel |-> "moving"]
    /\ \E m \in 0..MaxAlong :
          camera = [pose |-> "following", at |-> Along(m), target |-> Along(m),
                    factor |-> 0]
    /\ score = 0
    /\ platforms = <<OriginPlatform>>
    /\ fresh = 0
    /\ obstacles = 0
    /\ keyboard = [r |-> FALSE, nudge |-> FALSE]
    /\ resetEvents = [a |-> EmptyBuffer, b |-> EmptyBuffer]
    /\ collisions = [a |-> <<>>, b |-> <<>>]
    /\ commands = NoCommands
    /\ phase = "camera"
    /\ toRun = {}
    /\ ticks = 0
    /\ hist = BlankHist

NextLerp == MoveCameraInNumbers

SpecLerp == InitLerp /\ [][NextLerp]_vars

\* The camera's distance to its target, in thousandths of a unit, before
\* and after the run, and whether the camera has gone past the target.
DistanceBefore == Length(VecSub(camera.target, camera.at)) * LERP_SCALE

DistanceAfter ==
    Length(VecSub(camera.target, camera.at)) * Abs(LERP_SCALE - camera.factor)

PassedTarget == camera.factor > LERP_SCALE /\ camera.target # camera.at

ErrorSeen == DistanceError(camera.at, BallPosition(ball))

----------------------------------------------------------------------------
(* Properties *)

Platforms == {platforms[i] : i \in DOMAIN platforms}

Generated == {p \in Platforms : ~p.origin}

\* C1: at the end of every tick in which reset is applied, exactly one
\* platform and no obstacle exist, the score is 0, the ball has the origin
\* transform and zero velocity, and the camera has its initial pose.
C1_ResetRestoresStart ==
    (AtTickEnd /\ hist.applied) =>
        /\ Len(platforms) = 1
        /\ obstacles = 0
        /\ score = 0
        /\ ball = OriginBall
        /\ camera = InitialCamera

\* C2: between two resets no platform is credited more than one point, and a
\* tick without reset raises the score by exactly 1 when the scoring step
\* fires (the ball is below the un-scored furthest platform) and leaves it
\* unchanged otherwise.
C2_ScoreOncePerPlatform ==
    /\ \A p \in Platforms : p.credit <= 1
    /\ (AtTickEnd /\ ~hist.applied) =>
          score = hist.preScore + (IF hist.fired THEN 1 ELSE 0)

\* a later tick in which the ball is still below a platform that was already
\* credited: the score stays
C2_Witness ==
    /\ AtTickEnd /\ ~hist.applied /\ ~hist.fired
    /\ score >= 1 /\ score = hist.preScore
    /\ \E p \in Platforms : p.credit = 1 /\ ball.z < p.z

\* C3: the score at the end of a tick is not below the score at its start
\* unless reset was applied in the tick, and then it is 0, wherever reset ran
\* among the other systems.
C3_ScoreMonotoneUntilReset ==
    AtTickEnd => IF hist.applied THEN score = 0 ELSE score >= hist.preScore

\* scoring and reset in one tick, from a positive score
C3_Witness ==
    AtTickEnd /\ hist.applied /\ hist.fired /\ hist.preScore >= 1 /\ score = 0

\* C4 (as amended): between two applications of reset, scoring fires at most
\* once for a platform and its scored flag is true exactly when scoring has
\* fired for it since the last reset.
C4_ScoredOncePerResetPeriod ==
    \A p \in Platforms : p.since <= 1 /\ (p.scored <=> p.since = 1)

\* scoring fired for a platform for the second time in its lifetime
C4_Witness ==
    AtTickEnd /\ hist.refired /\ \E p \in Platforms : p.fired /\ p.since = 1

\* C4 (original): scoring never fires for a platform it has fired for before.
C4_ScoredOncePerLifetime == ~hist.refired

\* C5 (as amended): from the start state, the tick in which the ball's z is
\* below the origin platform's z (and no reset is applied) ends with score 1,
\* the origin platform scored and two new un-scored platforms: three in all.
C5_FirstCrossingSpawnsTwo ==
    (AtTickEnd /\ hist.preStart /\ hist.fired /\ ~hist.applied) =>
        /\ score = 1
        /\ Len(platforms) = 3
        /\ Cardinality({i \in DOMAIN platforms : platforms[i].origin}) = 1
        /\ \A p \in Platforms : p.scored <=> p.origin

C5_Witness ==
    AtTickEnd /\ hist.preStart /\ hist.fired /\ ~hist.applied /\ score = 1

\* C5 (original): ... and exactly one new platform exists (platform count 2).
C5_FirstCrossingSpawnsOne ==
    (AtTickEnd /\ hist.preStart /\ hist.fired /\ ~hist.applied) =>
        /\ score = 1
        /\ Len(platforms) = 2
        /\ \A p \in Platforms : p.scored <=> p.origin

\* C6: every generated platform lies PLATFORM_SIZE.z along z from its anchor
\* and a fixed vertical distance below it, the same for every generated
\* platform whatever the ball's position was.
C6_FixedOffsetFromAnchor ==
    /\ \A p \in Generated : p.az - p.z = U(PLATFORM_SIZE_Z)
    /\ \A p, q \in Generated : p.ay - p.y = q.ay - q.y

\* C7: detect_fall sends a ResetEvent exactly when the ball's y is below the
\* lowest platform's y minus 20, and after it has sent one reset is applied
\* in that tick or in the next.
C7_FallTriggersReset ==
    AtTickEnd =>
        /\ hist.fallRan => (hist.fallSent <=> hist.fallGap < 0)
        /\ hist.fallDue # "missed"

\* C8: detect_hit_obstacle sends a ResetEvent for every collision-start event
\* between the ball and an existing obstacle, in either order.
C8_EitherOrderHits == hist.hitSent = hist.hitPairs

\* C9: a run of reset with one or more buffered ResetEvents leaves the world
\* as a run with exactly one event does.
C9_CountHasNoEffect ==
    [][(phase = "tick" /\ "reset" \in toRun /\ "reset" \notin toRun'
            /\ Unread(resetEvents) >= 1)
        => World' = ResetSystem(World, 1)]_vars

\* reset was applied with two or more events buffered, from a world that
\* differs from the start
C9_Witness == AtTickEnd /\ hist.applied /\ hist.seen >= 2 /\ hist.preScore >= 1

\* C10: in a tick in which no trigger sends a ResetEvent, reset is not
\* applied on account of buffered events that have all had a reset applied
\* for them already.
C10_EventConsumedOnce == (AtTickEnd /\ ~hist.sent) => ~hist.reapplied

\* C11: in every state one ball exists (the ball record is well formed; no
\* command despawns it) and at least one platform exists, so the furthest
\* platform and the minimum platform height are always defined.
C11_OneBallSomePlatform ==
    /\ Len(platforms) >= 1
    /\ LastPlatforms(platforms) # {}
    /\ MinY(platforms) \in {platforms[i].y : i \in DOMAIN platforms}
    /\ ball \in [z : BallZs, y : BallYs, vel : {"zero", "moving"}]
    /\ DOMAIN commands = DOMAIN NoCommands

\* a reset has despawned generated platforms and left one platform
C11_Witness ==
    AtTickEnd /\ hist.applied /\ hist.preScore >= 1 /\ Len(platforms) = 1

\* C12: in a tick in which reset is applied, move_camera_to_ball computes its
\* target from the ball position the tick began with, never from the
\* position reset has written.
C12_CameraSeesPreResetBall == ~hist.camLate

Unscored == {i \in DOMAIN platforms : ~platforms[i].scored}

\* C13 (as amended): between ticks every platform of minimum z is un-scored
\* and there are at most two of them, with the same z and y: the candidates
\* for the anchor are the platforms of one scoring event, or one platform.
C13_FurthestAreUnscored ==
    phase # "tick" =>
        /\ Cardinality(LastPlatforms(platforms)) <= 2
        /\ \A i \in LastPlatforms(platforms) : ~platforms[i].scored
        /\ \A i, j \in LastPlatforms(platforms) :
              platforms[i].y = platforms[j].y

\* after a second scoring event: three un-scored platforms, two of them
\* of minimum z
C13_Witness ==
    /\ AtTickEnd /\ ~hist.applied
    /\ Cardinality(Unscored) >= 3
    /\ Cardinality(LastPlatforms(platforms)) = 2

\* C13 (original): at a tick boundary at most one existing platform has
\* scored = false (stated for the ticks in which no reset is applied).
C13_AtMostOneUnscored ==
    (AtTickEnd /\ ~hist.applied) => Cardinality(Unscored) <= 1

\* C14: at the end of a tick in which reset is applied (and scoring queued
\* no spawn), the one platform that remains is the origin platform, with
\* scored = false.
C14_OriginSurvivesReset ==
    (AtTickEnd /\ hist.applied /\ ~hist.fired) =>
        /\ Len(platforms) = 1
        /\ platforms[1].origin
        /\ ~platforms[1].scored

\* C15: a collision-start event that names a despawned obstacle is ignored:
\* detect_hit_obstacle sends exactly the ResetEvents it sends without that
\* event, and changes nothing else of the world.
C15_StaleEventIgnored ==
    [][(/\ phase = "tick"
        /\ "detect_hit_obstacle" \in toRun
        /\ "detect_hit_obstacle" \notin toRun')
       => /\ resetEvents' =
               SendN(resetEvents,
                     Hits(Live(collisions.b \o collisions.a), obstacles))
          /\ World' = World
          /\ obstacles' = obstacles]_vars

\* detect_hit_obstacle has read an event naming a despawned obstacle and no
\* other hit, and has sent nothing
C15_Witness ==
    /\ "detect_hit_obstacle" \notin toRun
    /\ hist.hitStale >= 1 /\ hist.hitSent = 0 /\ ~hist.sent

\* no event naming a despawned entity is ever buffered when a tick may read it
NoStaleDelivered ==
    /\ hist.hitStale = 0
    /\ Live(collisions.a) = collisions.a /\ Live(collisions.b) = collisions.b

\* C16 (as amended): in one run of move_camera_to_ball the factor is
\* positive; while the distance error is below 950 it is below 1, the
\* camera ends no further from its target than it was and does not pass it;
\* from a distance error of 950 on the factor is 1 or more.
C16_NoOvershootBelowThreshold ==
    phase = "moved" =>
        /\ camera.factor > 0
        /\ ErrorSeen < 950 =>
              /\ camera.factor < LERP_SCALE
              /\ DistanceAfter <= DistanceBefore
              /\ ~PassedTarget
        /\ ErrorSeen >= 950 => camera.factor >= LERP_SCALE

\* a run with a distance error that raised the factor, still below 1: the
\* camera has come closer to its target
C16_Witness ==
    /\ phase = "moved"
    /\ ErrorSeen > 0 /\ ErrorSeen < 950
    /\ camera.factor > LERP_BASE
    /\ DistanceAfter < DistanceBefore

\* C16 (original): for every camera and ball position the factor is strictly
\* between 0 and 1, the camera ends no further from its target than it was
\* and does not pass it.
C16_NeverOvershoots ==
    phase = "moved" =>
        /\ camera.factor > 0 /\ camera.factor < LERP_SCALE
        /\ DistanceAfter <= DistanceBefore
        /\ ~PassedTarget

\* C17: a run of increase_score_and_spawn_platforms changes no platform
\* whose z is not the minimum over the existing platforms, and when it
\* raises the score it marks a platform of minimum z that the ball is below.
C17_AnchorIsFurthest ==
    [][(/\ phase = "tick"
        /\ "increase_score_and_spawn_platforms" \in toRun
        /\ "increase_score_and_spawn_platforms" \notin toRun')
       => /\ \A i \in DOMAIN platforms :
                platforms[i].z # MinZ(platforms) => platforms'[i] = platforms[i]
          /\ score' # score =>
                \E i \in DOMAIN platforms :
                    /\ platforms[i].z = MinZ(platforms)
                    /\ ball.z < platforms[i].z
                    /\ ~platforms[i].scored /\ platforms'[i].scored]_vars

\* the system has run with the ball below an un-scored platform that is not
\* the furthest one, and has left that platform un-scored and the score as
\* it was
C17_Witness ==
    /\ phase = "tick"
    /\ "increase_score_and_spawn_platforms" \notin toRun
    /\ ~hist.applied /\ ~hist.fired /\ score = hist.preScore
    /\ \E i \in DOMAIN platforms :
          /\ platforms[i].z # MinZ(platforms)
          /\ ball.z < platforms[i].z
          /\ ~platforms[i].scored

\* C18: a scoring event queues exactly two platforms, both un-scored and
\* both with z below the z of every existing platform; a tick with a scoring
\* event and no reset ends with exactly those two as the platforms of
\* minimum z; and between ticks no scored platform has the minimum z, so a
\* platform scoring has fired for is not the anchor again before a reset.
C18_TwoFurtherPlatforms ==
    /\ (phase = "tick" /\ hist.fired) =>
          /\ Len(commands.spawn) = 2
          /\ \A j \in DOMAIN commands.spawn :
                /\ ~commands.spawn[j].scored
                /\ \A i \in DOMAIN platforms :
                      commands.spawn[j].z < platforms[i].z
    /\ (AtTickEnd /\ hist.fired /\ ~hist.applied) =>
          /\ Cardinality(LastPlatforms(platforms)) = 2
          /\ \A i \in LastPlatforms(platforms) :
                ~platforms[i].scored /\ ~platforms[i].fired
    /\ phase # "tick" =>
          \A i \in DOMAIN platforms :
              platforms[i].scored => platforms[i].z > MinZ(platforms)

\* a second scoring event, for a generated platform: five platforms, two of
\* them scored
C18_Witness ==
    /\ AtTickEnd /\ hist.fired /\ ~hist.applied /\ hist.preScore >= 1
    /\ Len(platforms) >= 5
    /\ \E p \in Generated : p.scored

\* C19: a tick that begins with score 0 (the start, or any time after a
\* reset), applies no reset and has the ball's z below the origin platform's
\* z fires scoring and ends with score 1.
C19_RegeneratesFromOrigin ==
    (/\ AtTickEnd /\ ~hist.applied /\ hist.preScore = 0
     /\ \E p \in Platforms : p.origin /\ ball.z < p.z)
        => hist.fired /\ score = 1

====
